---- MODULE Spec2Model ----
(***************************************************************************)
(* Tour-guide perception pipeline of SpaceFigureAI.                        *)
(*                                                                         *)
(* Two batch controllers live in the repository:                           *)
(*   - agents/tour_guide_agent/main.py: main() looping over run_one()      *)
(*     (specification Spec);                                               *)
(*   - agents/tour_guide_agent.py: process_media(), the legacy controller  *)
(*     with the mode classifier and the blueprint/room dispatch            *)
(*     (specification SpecLegacy).                                         *)
(* SpecThreads runs the provider acquisition of process_media from         *)
(* several threads.                                                        *)
(* SpecArgs is main() with its command-line arguments drawn; SpecFunctions *)
(* calls estimate_dimensions, estimate_orientation and to_scene_json alone.*)
(***************************************************************************)
EXTENDS Integers, Sequences, FiniteSets, TLC

\* ------------------------------------------------------------------ bounds
MaxImages == 2          \* image files the input directory of main.py can hold
MaxLegacyImages == 1    \* image files the input directory of process_media can hold
MaxDets == 1            \* detections a provider returns for one image
NThreads == 2           \* threads of SpecThreads

None == "None"

Labels == {"door", "cat"}
Providers == {"dino", "sam", "yolo", "depth", "blueprint", "room"}

VARIABLES
    args,           \* --camera_height_m, --fov_deg and where --output points
    input,          \* the input path: [kind, entries]
    env,            \* which providers can be loaded in this run
    mode_override,  \* process_media's mode_override argument
    pc,             \* position of the controller
    images,         \* the enumerated images
    idx,            \* 1-based position of the loop over images
    img,            \* the latest image: its name, whether it decodes, its mode
    loc,            \* locals of the handler under way
    results,        \* the list the controller returns / prints
    exc,            \* the exception the batch call propagated, None if none
    loads,          \* provider -> number of times its loader was run
    reads,          \* images whose bytes were read so far
    runs,           \* the detection pipelines run on the latest image, in order,
                    \* and in Spec its render_overlay call
    failed,         \* positions whose run_one raised
    files,          \* output files written
    cache,          \* process_media's blueprint_model / room_model cells
    threads         \* SpecThreads: per thread pc, cells and handles

vars == <<args, input, env, mode_override, pc, images, idx, img, loc, results, exc,
          loads, reads, runs, failed, files, cache, threads>>

\* ------------------------------------------------------------- helpers
RECURSIVE SortedSeq(_)
\* sorted(): the names of S in ascending order
SortedSeq(S) ==
    IF S = {} THEN <<>>
    ELSE LET m == CHOOSE x \in S : \A y \in S : x <= y
         IN <<m>> \o SortedSeq(S \ {m})

RECURSIVE SeqsUpTo(_, _)
SeqsUpTo(S, n) ==
    IF n = 0 THEN {<<>>}
    ELSE SeqsUpTo(S, n - 1) \cup
         {Append(s, x) : s \in {t \in SeqsUpTo(S, n - 1) : Len(t) = n - 1}, x \in S}

\* what a detector can report for one image
DetLists == SeqsUpTo(Labels, MaxDets)

NoImage == [name |-> 0, decodable |-> FALSE, mode |-> None]
NoLocals == [step |-> "none"]
NoThreads == [t \in 1..NThreads |-> [pc |-> "idle"]]
NoCache == [blueprint_model |-> None, room_model |-> None]

\* the file names an input directory can hold, in the order sorted() gives them;
\* a name is its stem's pieces followed by its suffix, an image is known by its
\* position in this list
FILE_NAMES ==
    << <<"a", ".jpg">>, <<"a", ".png">>, <<"a", "_depth", ".png">>, <<"notes", ".txt">> >>

IMAGE_EXTS == {".jpg", ".jpeg", ".png", ".bmp", ".tif", ".tiff"}

Names == 1..Len(FILE_NAMES)

\* Path.suffix and Path.stem
Suffix(n) == FILE_NAMES[n][Len(FILE_NAMES[n])]
Stem(n) == SubSeq(FILE_NAMES[n], 1, Len(FILE_NAMES[n]) - 1)

\* what an entry of the input directory is, by its suffix
KindOf(n) == IF Suffix(n) \in IMAGE_EXTS THEN "image" ELSE "other"

\* the path of an input file; "in" is the input directory
SourcePath(n) == [dir |-> "in", name |-> FILE_NAMES[n]]

\* the values a float argument of the command line can take: not given, a
\* positive finite number, zero, a negative number, inf, nan
CameraValues == {None, "pos", "zero", "neg", "inf", "nan"}

\* no camera argument, and an output directory that is not the input directory
NoArgs == [camera_height_m |-> None, fov_deg |-> None, output |-> "out", prompt |-> <<>>]

\* ------------------------------------------------- agents/tour_guide_agent
\* the entries of the input path whose suffix is in IMAGE_EXTS
ImageFiles(p) == {n \in DOMAIN p.entries : p.entries[n] = "image"}

\* main._list_images: a file with an image suffix, or the sorted image files of
\* a directory; anything else raises FileNotFoundError
_list_images(p) ==
    IF p.kind = "file" /\ ImageFiles(p) # {}
    THEN [raised |-> FALSE, images |-> SortedSeq(ImageFiles(p))]
    ELSE IF p.kind = "dir"
    THEN [raised |-> FALSE, images |-> SortedSeq(ImageFiles(p))]
    ELSE [raised |-> TRUE, images |-> <<>>]

\* perception._load_grounding_dino: None unless the import worked and the
\* constructor did not raise
_load_grounding_dino(e) == IF e.dino = "ok" THEN "dino" ELSE None

\* perception._load_sam: the mask generator, or None
_load_sam(e) == IF e.sam = "ok" THEN "mask_gen" ELSE None

\* the dataclass DetInstance; mask is <<>> for None, else <<the array>>
DetInstance(label, mask) ==
    [label |-> label, confidence |-> "score", bbox_xyxy |-> "box", mask |-> mask]

\* A prompt is the sequence of its pieces between the commas; args.prompt is
\* <<>> for None, else <<the prompt>>. The empty string has the one piece "".
Prompts == {<<"">>, <<"door", " cat", " ">>}

\* run_one: text_prompt = prompt or ""
TextPromptOf(prompt) == IF prompt = <<>> \/ prompt[1] = <<"">> THEN <<"">> ELSE prompt[1]

\* c.strip()
Strip(c) == CASE c = " cat" -> "cat" [] c = " " -> "" [] OTHER -> c

\* classes = [c.strip() for c in text_prompt.split(",") if c.strip()]
ClassesOf(text_prompt) ==
    SelectSeq([i \in 1..Len(text_prompt) |-> Strip(text_prompt[i])], LAMBDA c : c # "")

\* mutant of detect_and_segment: the detections built before the segmenter
\* raised are kept in front of those of the general detector
detect_and_segment_mixed(im, text_prompt, e, dinoRaises, yoloRaises, dout, yout, masked) ==
    IF ~im.decodable
    THEN [raised |-> TRUE, dets |-> <<>>, via |-> "undecodable", loaded |-> {},
          queried |-> <<>>]
    ELSE
      LET dino == _load_grounding_dino(e)
          mask_gen == _load_sam(e)
          dinoLoaded == IF e.dino = "absent" THEN {} ELSE {"dino"}
          samLoaded == IF dino = None \/ dinoRaises = "predict" \/ e.sam = "absent"
                       THEN {} ELSE {"sam"}
          yoloLoaded == IF e.yolo = "absent" THEN {} ELSE {"yolo"}
          queried == IF dino # None THEN <<ClassesOf(text_prompt)>> ELSE <<>>
          dinoFailed == \/ dinoRaises = "predict"
                        \/ dinoRaises = "segment" /\ mask_gen # None /\ Len(dout) > 0
      IN IF dino # None /\ ~dinoFailed
         THEN [raised |-> FALSE,
               dets |-> [i \in 1..Len(dout) |->
                           DetInstance(dout[i], IF mask_gen # None /\ masked
                                               THEN <<"crop_mask">> ELSE <<>>)],
               via |-> "dino",
               loaded |-> dinoLoaded \cup samLoaded,
               queried |-> queried]
         ELSE IF e.yolo = "absent"
         THEN [raised |-> FALSE, dets |-> <<>>, via |-> "none",
               loaded |-> dinoLoaded \cup samLoaded,
               queried |-> queried]
         ELSE IF e.yolo = "loadfail" \/ yoloRaises
         THEN [raised |-> FALSE, dets |-> <<>>, via |-> "none",
               loaded |-> dinoLoaded \cup samLoaded \cup yoloLoaded,
               queried |-> queried]
         ELSE [raised |-> FALSE,
               dets |-> (IF dino # None /\ dinoRaises = "segment" /\ mask_gen # None
                         THEN [i \in 1..(Len(dout) - 1) |->
                                  DetInstance(dout[i], <<"crop_mask">>)]
                         ELSE <<>>)
                        \o [i \in 1..Len(yout) |-> DetInstance(yout[i], <<>>)],
               via |-> "yolo",
               loaded |-> dinoLoaded \cup samLoaded \cup yoloLoaded,
               queried |-> queried]

\* perception.detect_and_segment. dinoRaises: where the open-vocabulary path
\* raises on this image ("none", "predict", "segment"); yoloRaises: whether the
\* YOLO inference raises; dout, yout: the labels the open-vocabulary detector and
\* the general detector report for the image;
\* masked: whether the segmenter returns a mask for a box. loaded: the
\* constructors it ran; queried: <<the classes the open-vocabulary detector
\* was asked for>>, <<>> when it was not asked.
detect_and_segment(im, text_prompt, e, dinoRaises, yoloRaises, dout, yout, masked) ==
    IF ~im.decodable
    THEN [raised |-> TRUE, dets |-> <<>>, via |-> "undecodable", loaded |-> {},
          queried |-> <<>>]
    ELSE
      LET dino == _load_grounding_dino(e)
          mask_gen == _load_sam(e)
          dinoLoaded == IF e.dino = "absent" THEN {} ELSE {"dino"}
          samLoaded == IF dino = None \/ dinoRaises = "predict" \/ e.sam = "absent"
                       THEN {} ELSE {"sam"}
          yoloLoaded == IF e.yolo = "absent" THEN {} ELSE {"yolo"}
          queried == IF dino # None THEN <<ClassesOf(text_prompt)>> ELSE <<>>
          dinoFailed == \/ dinoRaises = "predict"
                        \/ dinoRaises = "segment" /\ mask_gen # None /\ Len(dout) > 0
      IN IF dino # None /\ ~dinoFailed
         THEN [raised |-> FALSE,
               dets |-> [i \in 1..Len(dout) |->
                           DetInstance(dout[i], IF mask_gen # None /\ masked
                                               THEN <<"crop_mask">> ELSE <<>>)],
               via |-> "dino",
               loaded |-> dinoLoaded \cup samLoaded,
               queried |-> queried]
         ELSE IF e.yolo = "absent"
         THEN [raised |-> FALSE, dets |-> <<>>, via |-> "none",
               loaded |-> dinoLoaded \cup samLoaded,
               queried |-> queried]
         ELSE IF e.yolo = "loadfail" \/ yoloRaises
         THEN [raised |-> FALSE, dets |-> <<>>, via |-> "none",
               loaded |-> dinoLoaded \cup samLoaded \cup yoloLoaded,
               queried |-> queried]
         ELSE [raised |-> FALSE,
               dets |-> [i \in 1..Len(yout) |-> DetInstance(yout[i], <<>>)],
               via |-> "yolo",
               loaded |-> dinoLoaded \cup samLoaded \cup yoloLoaded,
               queried |-> queried]

\* the output paths run_one builds from the image's stem:
\* out_dir / f"{img_path.stem}_depth.png", out_dir / f"{img_path.stem}_annotated.jpg"
DepthVisPath(out_dir, im) ==
    [dir |-> out_dir, name |-> Stem(im.name) \o <<"_depth", ".png">>]
OverlayPath(out_dir, im) ==
    [dir |-> out_dir, name |-> Stem(im.name) \o <<"_annotated", ".jpg">>]

\* A decoded image: w columns, h rows, every pixel gray; the columns left of
\* w \div 2 have the brightness `left` (0..255), the others `right`.
PixelLevels == {0, 128, 255}
PixelWidths == {4, 20}
PixelHeights == {2, 3}
Pixels == [w : PixelWidths, h : PixelHeights, left : PixelLevels, right : PixelLevels]

\* what the images of a batch decode to: a uniformly mid-gray picture, the
\* first file name a strip 4 rows high, the others 15 x 15
BatchPixels == [w |-> 15, h |-> 15, left |-> 128, right |-> 128]
StripPixels == [w |-> 20, h |-> 4, left |-> 128, right |-> 128]

\* cv2.imread: <<>> for None, else <<the pixels>>
Imread(im) ==
    IF im.decodable THEN <<IF im.name = 1 THEN StripPixels ELSE BatchPixels>>
    ELSE <<>>

\* np.quantile(v, 0.995) over the w * h values of px, times 255 * 200: linear
\* interpolation between the two sorted values around position
\* 0.995 * (n - 1) = 199 * (n - 1) / 200
Quantile995(px) ==
    LET n == px.w * px.h
        lo == IF px.left <= px.right THEN px.left ELSE px.right
        hi == IF px.left <= px.right THEN px.right ELSE px.left
        nlo == IF px.left = px.right THEN n
               ELSE IF px.left < px.right THEN (px.w \div 2) * px.h
               ELSE (px.w - px.w \div 2) * px.h
        sorted(k) == IF k < nlo THEN lo ELSE hi
        i == (199 * (n - 1)) \div 200
        frac == (199 * (n - 1)) % 200
        up == IF i + 1 <= n - 1 THEN sorted(i + 1) ELSE sorted(i)
    IN sorted(i) * 200 + frac * (up - sorted(i))

\* cv2.moments of the clipped brightness (times 255 * 200): m00 is the sum of
\* the values, m10 the sum of x * value with x the 0-based column
Moments(px) ==
    LET q == Quantile995(px)
        clip(level) == IF level * 200 <= q THEN level * 200 ELSE q
        cl == px.w \div 2
        sumLeft == (cl * (cl - 1)) \div 2
        sumAll == (px.w * (px.w - 1)) \div 2
    IN [m00 |-> px.h * (cl * clip(px.left) + (px.w - cl) * clip(px.right)),
        m10 |-> px.h * (sumLeft * clip(px.left) + (sumAll - sumLeft) * clip(px.right))]

\* mutant of estimate_orientation: the image is split at its middle, no
\* ambiguous band
estimate_orientation_halves(bgr) ==
    IF bgr = <<>> THEN [orientation |-> "unknown"]
    ELSE LET m == Moments(bgr[1])
             w == bgr[1].w
         IN IF m.m00 <= 0 THEN [orientation |-> "unknown"]
            ELSE [orientation |->
                      IF 2 * m.m10 > w * m.m00 THEN "East-ish"
                      ELSE IF 2 * m.m10 < w * m.m00 THEN "West-ish"
                      ELSE "South/North ambiguous",
                  brightness_cx_px |-> [num |-> m.m10, den |-> m.m00],
                  image_width_px |-> w]

\* mutant of estimate_orientation: no test of the zeroth moment
estimate_orientation_unguarded(bgr) ==
    IF bgr = <<>> THEN [orientation |-> "unknown"]
    ELSE LET m == Moments(bgr[1])
             w == bgr[1].w
         IN [orientation |->
                 IF 20 * m.m10 > 11 * w * m.m00 THEN "East-ish"
                 ELSE IF 20 * m.m10 < 9 * w * m.m00 THEN "West-ish"
                 ELSE "South/North ambiguous",
             brightness_cx_px |-> [num |-> m.m10, den |-> m.m00],
             image_width_px |-> w]

\* orientation.estimate_orientation over what cv2.imread returned. m00 <= 1e-6
\* is m00 = 0 on the integer scale; cx > 0.55 * w is 20 * m10 > 11 * w * m00 and
\* cx < 0.45 * w is 20 * m10 < 9 * w * m00; cx = m10 / m00 is kept as the
\* fraction [num, den].
estimate_orientation(bgr) ==
    IF bgr = <<>> THEN [orientation |-> "unknown"]
    ELSE LET m == Moments(bgr[1])
             w == bgr[1].w
         IN IF m.m00 <= 0 THEN [orientation |-> "unknown"]
            ELSE [orientation |->
                      IF 20 * m.m10 > 11 * w * m.m00 THEN "East-ish"
                      ELSE IF 20 * m.m10 < 9 * w * m.m00 THEN "West-ish"
                      ELSE "South/North ambiguous",
                  brightness_cx_px |-> [num |-> m.m10, den |-> m.m00],
                  image_width_px |-> w]

Min(a, b) == IF a <= b THEN a ELSE b
Max(a, b) == IF a >= b THEN a ELSE b

\* int(v) of a coordinate given in half pixels: truncation toward zero
TruncHalf(k) == IF k >= 0 THEN k \div 2 ELSE -((-k) \div 2)

\* img[y1i:y2i, x1i:x2i]: the length of the slice a:b of an axis of length n;
\* a negative index counts from the end, and both ends are clipped to the axis
SliceIndex(i, n) == IF i < 0 THEN Max(0, i + n) ELSE Min(i, n)
SliceLen(a, b, n) == Max(0, SliceIndex(b, n) - SliceIndex(a, n))

\* the segmentation of the largest mask SAM returns for a roi of rw x rh pixels
Segmentations == {"full", "first", "last", "no_masks"}
SegmentationOf(kind, rw, rh) ==
    CASE kind = "full" -> (0..(rw - 1)) \X (0..(rh - 1))
      [] kind = "first" -> {<<0, 0>>}
      [] kind = "last" -> {<<rw - 1, rh - 1>>}
      [] OTHER -> {}

\* mutant of crop_mask: the crop is written at the origin of the image
crop_mask_at_origin(shape, box, kind) ==
    LET x1i == Max(0, TruncHalf(box.x1))
        y1i == Max(0, TruncHalf(box.y1))
        x2i == Max(0, TruncHalf(box.x2))
        y2i == Max(0, TruncHalf(box.y2))
        rw == SliceLen(x1i, x2i, shape.w)
        rh == SliceLen(y1i, y2i, shape.h)
        crop == SegmentationOf(kind, rw, rh)
    IN IF rw * rh > 0 /\ kind # "no_masks"
       THEN [mask |-> <<[h |-> shape.h, w |-> shape.w, on |-> crop]>>, crop |-> crop]
       ELSE [mask |-> <<>>, crop |-> {}]

\* detect_and_segment, the SAM branch for one box: the coordinates are
\* truncated and clamped at 0, the roi is cut out, its largest mask is written
\* into a zero array of the image's shape at the roi's corner; `on` holds the
\* true pixels as <<x, y>>
crop_mask(shape, box, kind) ==
    LET x1i == Max(0, TruncHalf(box.x1))
        y1i == Max(0, TruncHalf(box.y1))
        x2i == Max(0, TruncHalf(box.x2))
        y2i == Max(0, TruncHalf(box.y2))
        rw == SliceLen(x1i, x2i, shape.w)
        rh == SliceLen(y1i, y2i, shape.h)
        crop == SegmentationOf(kind, rw, rh)
    IN IF rw * rh > 0 /\ kind # "no_masks"
       THEN [mask |-> <<[h |-> shape.h, w |-> shape.w,
                         on |-> {<<x1i + c[1], y1i + c[2]>> : c \in crop}]>>,
             crop |-> crop]
       ELSE [mask |-> <<>>, crop |-> {}]

\* image shapes and boxes (in half pixels) the SAM branch is called on: boxes
\* starting left of or above the image, ending past its border, inverted, empty
Shapes == {[w |-> 3, h |-> 2], [w |-> 2, h |-> 3]}
BoxesOf(shape) ==
    [x1 : {-3, 0, 1, 3, 2 * shape.w + 1}, x2 : {-3, 1, 4, 2 * shape.w, 2 * shape.w + 3},
     y1 : {-3, 0, 3}, y2 : {0, 2, 2 * shape.h, 2 * shape.h + 3}]

\* 1 / 1e-6: the guard added to the range in estimate_depth
EPS_INV == 1000000

RECURSIVE Gcd(_, _)
Gcd(a, b) == IF b = 0 THEN a ELSE Gcd(b, a % b)

RECURSIVE GcdOfSeq(_)
GcdOfSeq(q) == IF q = <<>> THEN 0 ELSE Gcd(Head(q), GcdOfSeq(Tail(q)))

\* depth.min() and depth.max() over the numerators of a field
MinOf(q) == CHOOSE x \in {q[i] : i \in 1..Len(q)} : \A i \in 1..Len(q) : x <= q[i]
MaxOf(q) == CHOOSE x \in {q[i] : i \in 1..Len(q)} : \A i \in 1..Len(q) : x >= q[i]

\* A depth field: the values num[i] / den, in lowest terms
Reduce(f) ==
    LET g == Gcd(f.den, GcdOfSeq(f.num))
    IN [num |-> [i \in 1..Len(f.num) |-> f.num[i] \div g], den |-> f.den \div g]

\* mutant of normalize_depth: the guard is added to the numerator as well
normalize_depth_shifted(f) ==
    LET lo == MinOf(f.num)
        hi == MaxOf(f.num)
    IN Reduce([num |-> [i \in 1..Len(f.num) |-> (f.num[i] - lo) * EPS_INV + f.den],
               den |-> (hi - lo) * EPS_INV + f.den])

\* estimate_depth: depth_norm = (depth - depth.min()) / (depth.max() - depth.min() + 1e-6)
\* on the fractions: (n - lo) / den / ((hi - lo) / den + 1 / EPS_INV)
normalize_depth(f) ==
    LET lo == MinOf(f.num)
        hi == MaxOf(f.num)
    IN Reduce([num |-> [i \in 1..Len(f.num) |-> (f.num[i] - lo) * EPS_INV],
               den |-> (hi - lo) * EPS_INV + f.den])

\* the depth fields normalize_depth is called on: raw predictions a few 1e-6
\* apart, their normalizations, and fields that fill [0, 1] exactly
FieldLen == 2
RawFields == {[num |-> q, den |-> EPS_INV] : q \in [1..FieldLen -> 0..3]}
UnitFields == {[num |-> q, den |-> 3] : q \in {r \in [1..FieldLen -> 0..3] :
                                                  \E i \in 1..FieldLen : r[i] = 0}}
DepthFields ==
    {Reduce(f) : f \in RawFields} \cup {normalize_depth(f) : f \in RawFields}
    \cup {Reduce(f) : f \in UnitFields}

\* the depth map of a decoded image, as far as estimate_dimensions looks at it:
\* its shape and the two argmax positions of the per-row median profile
DepthMaps == [h : {40, 200}, w : {20}, top : {0, 10}, bottom : {0, 10}]
DepthOf(px) == [h |-> px.h, w |-> px.w, top |-> 0, bottom |-> 0]


\* mutant of estimate_dimensions: the pixel guess is computed in both branches
estimate_dimensions_with_px_guess(depth_norm, camera_height_m, fov_deg) ==
    IF camera_height_m = None \/ fov_deg = None
    THEN [image_width_px |-> depth_norm.w,
          image_height_px |-> depth_norm.h,
          scale |-> "relative",
          ceiling_height_px_guess |->
              Max(50, depth_norm.h - depth_norm.bottom - depth_norm.top)]
    ELSE [image_width_px |-> depth_norm.w,
          image_height_px |-> depth_norm.h,
          scale |-> "approx_meters",
          ceiling_height_px_guess |->
              Max(50, depth_norm.h - depth_norm.bottom - depth_norm.top),
          px_to_m |-> camera_height_m,
          focal_px |-> fov_deg,
          ceiling_height_m_guess |-> camera_height_m]

\* geometry.estimate_dimensions. The metre branch is arithmetic on the two
\* arguments and never raises: its fields carry the class of the value they are
\* computed from (px_to_m and ceiling_height_m_guess from camera_height_m,
\* focal_px from fov_deg).
estimate_dimensions(depth_norm, camera_height_m, fov_deg) ==
    IF camera_height_m = None \/ fov_deg = None
    THEN [image_width_px |-> depth_norm.w,
          image_height_px |-> depth_norm.h,
          scale |-> "relative",
          ceiling_height_px_guess |->
              Max(50, depth_norm.h - depth_norm.bottom - depth_norm.top)]
    ELSE [image_width_px |-> depth_norm.w,
          image_height_px |-> depth_norm.h,
          scale |-> "approx_meters",
          px_to_m |-> camera_height_m,
          focal_px |-> fov_deg,
          ceiling_height_m_guess |-> camera_height_m]

\* mutant of to_scene_json: has_mask does not look at the mask
to_scene_json_unmasked(im, dets, depth_stats, geom_stats, dim_stats, orient_stats) ==
    [source_image |-> im.name,
     objects |-> [i \in 1..Len(dets) |->
                     [label |-> dets[i].label,
                      confidence |-> dets[i].confidence,
                      bbox_xyxy |-> dets[i].bbox_xyxy,
                      has_mask |-> FALSE]],
     depth |-> depth_stats,
     geometry |-> geom_stats,
     dimensions |-> dim_stats,
     orientation |-> orient_stats]

\* scene_builder.to_scene_json
to_scene_json(im, dets, depth_stats, geom_stats, dim_stats, orient_stats) ==
    [source_image |-> im.name,
     objects |-> [i \in 1..Len(dets) |->
                     [label |-> dets[i].label,
                      confidence |-> dets[i].confidence,
                      bbox_xyxy |-> dets[i].bbox_xyxy,
                      has_mask |-> dets[i].mask # <<>>]],
     depth |-> depth_stats,
     geometry |-> geom_stats,
     dimensions |-> dim_stats,
     orientation |-> orient_stats]

\* mutant of render_overlay: the inset is never composited
render_overlay_no_inset(bgr, exists, depth_vis) ==
    IF bgr = <<>> THEN [raised |-> TRUE, inset |-> FALSE]
    ELSE [raised |-> FALSE, inset |-> FALSE]

\* render_overlay: bgr is the decoded image, exists says whether a file is at
\* depth_map_vis_path, depth_vis is what cv2.imread returns for it. The inset
\* is resized to (dw, dh) and assigned to the slice
\* overlay[oh - dh - 10:oh - 10, ow - dw - 10:ow - 10]; the assignment raises
\* unless the slice has the inset's shape or the inset broadcasts to it, and an
\* empty slice takes a one-row or one-column inset without raising.
render_overlay(bgr, exists, depth_vis) ==
    IF bgr = <<>> THEN [raised |-> TRUE, inset |-> FALSE]
    ELSE IF ~exists \/ depth_vis = <<>> THEN [raised |-> FALSE, inset |-> FALSE]
    ELSE LET oh == bgr[1].h
             ow == bgr[1].w
             dh == Min(180, oh \div 3)
             dw == (dh * depth_vis[1].w) \div depth_vis[1].h
             rows == SliceLen(oh - dh - 10, oh - 10, oh)
             cols == SliceLen(ow - dw - 10, ow - 10, ow)
         IN IF dh <= 0 \/ dw <= 0 THEN [raised |-> TRUE, inset |-> FALSE]
            ELSE IF (rows = dh \/ dh = 1) /\ (cols = dw \/ dw = 1)
            THEN [raised |-> FALSE, inset |-> rows > 0 /\ cols > 0]
            ELSE [raised |-> TRUE, inset |-> FALSE]

\* perception.DEFAULT_PROMPT, split at the commas
DEFAULT_PROMPT ==
    {"window", "door", "fan", "outlet", "switch", "sofa", "bed", "chair", "table",
     "lamp", "tv", "sink", "toilet", "shower", "fridge"}

\* mutant of CountsOf: a label is counted once however often it occurs
CountsOf_presence(dets) == [l \in {dets[i].label : i \in 1..Len(dets)} |-> 1]

\* for d in dets: counts[d.label] = counts.get(d.label, 0) + 1
RECURSIVE CountsLoop(_, _, _)
CountsLoop(dets, i, counts) ==
    IF i > Len(dets) THEN counts
    ELSE LET l == dets[i].label
             got == IF l \in DOMAIN counts THEN counts[l] ELSE 0
         IN CountsLoop(dets, i + 1,
                [k \in DOMAIN counts \cup {l} |-> IF k = l THEN got + 1 ELSE counts[k]])

\* run_one's counts by label
CountsOf(dets) == CountsLoop(dets, 1, [l \in {} |-> 0])

\* mutant of FinishScene: the counts are not attached
FinishScene_without_counts(scene, overlay_path, dets) ==
    [k \in DOMAIN scene \cup {"annotated_image"} |->
        IF k = "annotated_image" THEN overlay_path ELSE scene[k]]

\* run_one's scene["annotated_image"] = ...; scene["counts"] = ...
FinishScene(scene, overlay_path, dets) ==
    [k \in DOMAIN scene \cup {"annotated_image", "counts"} |->
        IF k = "annotated_image" THEN overlay_path
        ELSE IF k = "counts" THEN CountsOf(dets)
        ELSE scene[k]]

\* main's except clause: {"image": str(img), "error": str(e)}
ErrorEntry(im, e) == [image |-> im.name, error |-> e]

IsError(r) == "error" \in DOMAIN r

SceneFields == {"source_image", "objects", "depth", "geometry", "dimensions",
                "orientation", "annotated_image", "counts"}

IsScene(r) == DOMAIN r = SceneFields

\* --------------------------------------------------------- Spec: main.py
EnvsMain ==
    [dino : {"absent", "loadfail", "ok"},
     sam : {"absent", "loadfail", "ok"},
     yolo : {"absent", "loadfail", "ok"},
     depth : {"loadfail", "ok"},
     blueprint : {"missing"},
     room : {"loadfail"}]

\* the input path: nothing, one file (image suffix or not), or a directory that
\* holds some of FILE_NAMES, at most n image files among them
Inputs(n) ==
    {[kind |-> "missing", entries |-> [m \in {} |-> "image"]]}
    \cup {[kind |-> "file", entries |-> [m \in {i} |-> KindOf(i)]] : i \in Names}
    \cup {[kind |-> "dir",
            entries |-> [m \in Names |-> IF m \in S THEN KindOf(m) ELSE "absent"]] :
             S \in {T \in SUBSET Names :
                      Cardinality({m \in T : KindOf(m) = "image"}) <= n}}

Init ==
    /\ args = NoArgs
    /\ input \in Inputs(MaxImages)
    /\ env \in EnvsMain
    /\ mode_override = None
    /\ pc = "start"
    /\ images = <<>>
    /\ idx = 0
    /\ img = NoImage
    /\ loc = NoLocals
    /\ results = <<>>
    /\ exc = None
    /\ loads = [p \in Providers |-> 0]
    /\ reads = {}
    /\ runs = <<>>
    /\ failed = {}
    /\ files = {}
    /\ cache = NoCache
    /\ threads = NoThreads

\* main: images = _list_images(in_path)
Main_ListImages ==
    /\ pc = "start"
    /\ LET r == _list_images(input)
       IN IF r.raised
          THEN /\ exc' = "FileNotFoundError"
               /\ pc' = "raised"
               /\ UNCHANGED <<images, idx>>
          ELSE /\ images' = r.images
               /\ idx' = 1
               /\ pc' = "loop"
               /\ exc' = exc
    /\ UNCHANGED <<args, input, env, mode_override, img, loc, results, loads, reads,
                   runs, failed, files, cache, threads>>

\* main: for img in images: ... ; after the loop the results are printed
Main_Loop ==
    /\ pc = "loop"
    /\ IF idx > Len(images)
       THEN /\ pc' = "done"
            /\ UNCHANGED <<img, loc, runs>>
       ELSE /\ \E d \in BOOLEAN :
                 img' = [name |-> images[idx], decodable |-> d, mode |-> None]
            /\ loc' = [step |-> "run_one"]
            /\ runs' = <<>>
            /\ pc' = "detect"
    /\ UNCHANGED <<args, input, env, mode_override, images, idx, results, exc, loads,
                   reads, failed, files, cache, threads>>

\* main: except Exception as e: results.append({"image": ..., "error": ...})
Main_Except(e) ==
    /\ results' = Append(results, ErrorEntry(img, e))
    /\ failed' = failed \cup {idx}
    /\ idx' = idx + 1
    /\ pc' = "loop"
    /\ loc' = NoLocals

BumpLoads(ps) == [p \in Providers |-> IF p \in ps THEN loads[p] + 1 ELSE loads[p]]

\* run_one step 1: dets = detect_and_segment(...)
RunOne_Detect ==
    /\ pc = "detect"
    /\ \E dinoRaises \in {"none", "predict", "segment"}, yoloRaises \in BOOLEAN, masked \in BOOLEAN,
          out \in DetLists :
          LET r == detect_and_segment(img, TextPromptOf(args.prompt), env, dinoRaises,
                                      yoloRaises, out, out, masked)
          IN /\ loads' = BumpLoads(r.loaded)
             /\ reads' = reads \cup {img.name}
             /\ runs' = Append(runs, [mode_guess |-> None, pipeline |-> r.via,
                                     ok |-> ~r.raised, queried |-> r.queried])
             /\ IF r.raised
                THEN /\ Main_Except("Could not read image")
                ELSE /\ loc' = [step |-> "run_one", dets |-> r.dets, via |-> r.via]
                     /\ pc' = "depth"
                     /\ UNCHANGED <<results, failed, idx>>
    /\ UNCHANGED <<args, input, env, mode_override, images, img, exc, files, cache, threads>>

\* run_one step 2: estimate_depth loads the MiDaS model, opens the image, infers
RunOne_Depth ==
    /\ pc = "depth"
    /\ loads' = BumpLoads({"depth"})
    /\ \E raises \in BOOLEAN :
          IF env.depth # "ok" \/ ~img.decodable \/ raises
          THEN /\ Main_Except("depth")
               /\ UNCHANGED files
          ELSE \* save_depth_visual(depth_norm, depth_vis_path)
               /\ files' = files \cup {DepthVisPath(args.output, img)}
               /\ loc' = [loc EXCEPT !.step = "depth_done"]
               /\ pc' = "geometry"
               /\ UNCHANGED <<results, failed, idx>>
    /\ UNCHANGED <<args, input, env, mode_override, images, img, exc, reads, runs,
                   cache, threads>>

\* run_one steps 3-5: plane stats, dimensions, orientation, to_scene_json
RunOne_Fuse ==
    /\ pc = "geometry"
    /\ \E raises \in BOOLEAN :
          IF raises
          THEN /\ Main_Except("geometry")
          ELSE /\ loc' = [loc EXCEPT !.step = "fused"] @@
                         [scene |-> to_scene_json(img, loc.dets,
                                       [vis_path |-> DepthVisPath(args.output, img)],
                                       "geom_stats",
                                       estimate_dimensions(DepthOf(Imread(img)[1]),
                                           args.camera_height_m, args.fov_deg),
                                       estimate_orientation(Imread(img)))]
               /\ pc' = "overlay"
               /\ UNCHANGED <<results, failed, idx>>
    /\ UNCHANGED <<args, input, env, mode_override, images, img, exc, loads, reads,
                   runs, files, cache, threads>>

\* run_one: render_overlay, annotated_image, counts; main: results.append(scene)
RunOne_Overlay ==
    /\ pc = "overlay"
    /\ \E raises \in BOOLEAN :
          LET depth_vis_path == DepthVisPath(args.output, img)
              r == render_overlay(Imread(img), depth_vis_path \in files, Imread(img))
          IN /\ runs' = Append(runs, [mode_guess |-> None, pipeline |-> "overlay",
                                      ok |-> ~(r.raised \/ raises),
                                      inset |-> r.inset])
             /\ IF r.raised \/ raises
                THEN /\ Main_Except("overlay")
                     /\ UNCHANGED files
                ELSE /\ files' = files \cup {OverlayPath(args.output, img)}
                     /\ results' = Append(results,
                                      FinishScene(loc.scene,
                                                  OverlayPath(args.output, img),
                                                  loc.dets))
                     /\ idx' = idx + 1
                     /\ pc' = "loop"
                     /\ loc' = NoLocals
                     /\ UNCHANGED failed
    /\ UNCHANGED <<args, input, env, mode_override, images, img, exc, loads, reads,
                   cache, threads>>

Next ==
    \/ Main_ListImages
    \/ Main_Loop
    \/ RunOne_Detect
    \/ RunOne_Depth
    \/ RunOne_Fuse
    \/ RunOne_Overlay

Spec == Init /\ [][Next]_vars

\* ------------------------------- SpecLegacy: agents/tour_guide_agent.py
CF_THRESHOLD == 250     \* cf < 25.0, colorfulness in tenths
ED_THRESHOLD == 50      \* ed > 0.05, edge density in thousandths

\* the scores an image can have: below, at and above each threshold
CfValues == {CF_THRESHOLD - 1, CF_THRESHOLD, CF_THRESHOLD + 1}
EdValues == {ED_THRESHOLD - 1, ED_THRESHOLD, ED_THRESHOLD + 1}

SELECTED_LABELS_2D ==
    {"Column", "Curtain Wall", "Dimension", "Door", "Railing", "Sliding Door",
     "Stair Case", "Wall", "Window"}

TARGET_CLASSES_ROOM ==
    {"bed", "sofa", "chair", "tv", "refrigerator", "potted plant", "dining table",
     "person", "clock", "laptop", "microwave", "oven", "sink", "toilet"}

\* class names the two YOLO models can report
LegacyLabels == {"Door", "chair", "cat"}
LegacyDetLists == SeqsUpTo(LegacyLabels, MaxDets)

\* values of the --mode argument
Overrides == {None, "blueprint", "room", "ROOM", "floorplan"}

\* str.lower() on the mode strings
Lower(s) == IF s = "ROOM" THEN "room" ELSE s

\* mutant of guess_mode_from_image: the colorfulness test admits the threshold
guess_mode_inclusive(bgr) ==
    IF ~bgr.decodable THEN "room"
    ELSE IF bgr.cf <= CF_THRESHOLD /\ bgr.ed > ED_THRESHOLD THEN "blueprint"
    ELSE "room"

\* mutant of guess_mode_from_image: no test of what imread returned, the empty
\* image is scored as colorless
guess_mode_unchecked(bgr) ==
    IF bgr.cf < CF_THRESHOLD /\ (bgr.ed > ED_THRESHOLD \/ ~bgr.decodable)
    THEN "blueprint"
    ELSE "room"

\* guess_mode_from_image: bgr is what cv2.imread gives, bgr.cf and bgr.ed are
\* _image_colorfulness(bgr) and _edge_density(gray)
guess_mode_from_image(bgr) ==
    IF ~bgr.decodable THEN "room"
    ELSE IF bgr.cf < CF_THRESHOLD /\ bgr.ed > ED_THRESHOLD THEN "blueprint"
    ELSE "room"

\* process_media: mode_guess = (mode_override or guess_mode_from_image(img)).lower()
ModeGuess(o, bgr) == Lower(IF o # None THEN o ELSE guess_mode_from_image(bgr))

\* process_media: [mode_guess, "room" if mode_guess == "blueprint" else "blueprint"]
ModesToTry(g) == <<g, IF g = "blueprint" THEN "room" ELSE "blueprint">>

\* _load_blueprint_model_safely: None when the weights are missing or YOLO raises
_load_blueprint_model_safely(e) ==
    IF e.blueprint = "ok" THEN "blueprint_model" ELSE None

\* mutant of _ensure_blueprint_model: the loader's failure is not swallowed
_ensure_blueprint_model_unguarded(c, e) ==
    IF c.blueprint_model = None
    THEN [model |-> _load_blueprint_model_safely(e),
          cache |-> [c EXCEPT !.blueprint_model = _load_blueprint_model_safely(e)],
          loaded |-> IF e.blueprint = "missing" THEN {} ELSE {"blueprint"},
          raised |-> e.blueprint # "ok"]
    ELSE [model |-> c.blueprint_model, cache |-> c, loaded |-> {}, raised |-> FALSE]

\* process_media._ensure_blueprint_model over the cells c
_ensure_blueprint_model(c, e) ==
    IF c.blueprint_model = None
    THEN [model |-> _load_blueprint_model_safely(e),
          cache |-> [c EXCEPT !.blueprint_model = _load_blueprint_model_safely(e)],
          loaded |-> IF e.blueprint = "missing" THEN {} ELSE {"blueprint"},
          raised |-> FALSE]
    ELSE [model |-> c.blueprint_model, cache |-> c, loaded |-> {}, raised |-> FALSE]

\* process_media._ensure_room_model: YOLO(room_model_path) is not guarded
_ensure_room_model(c, e) ==
    IF c.room_model = None
    THEN IF e.room = "ok"
         THEN [model |-> "room_model",
               cache |-> [c EXCEPT !.room_model = "room_model"],
               loaded |-> {"room"}, raised |-> FALSE]
         ELSE [model |-> None, cache |-> c, loaded |-> {"room"}, raised |-> TRUE]
    ELSE [model |-> c.room_model, cache |-> c, loaded |-> {}, raised |-> FALSE]

\* _count_detected_objects / the counts loop of process_room_photo
LabelCounts(labels) ==
    [l \in {labels[i] : i \in 1..Len(labels)} |->
        Cardinality({i \in 1..Len(labels) : labels[i] = l})]

LegacyFiles(im, mode) ==
    {[stem |-> im.name, suffix |-> "_detected_" \o mode \o ".jpg"],
     [stem |-> im.name, suffix |-> "_detections_" \o mode \o ".json"],
     [stem |-> im.name, suffix |-> "_counts_" \o mode \o ".csv"]}

LegacyResult(im, mode, kept) ==
    [mode |-> mode,
     annotated_image |-> [stem |-> im.name, suffix |-> "_detected_" \o mode \o ".jpg"],
     json |-> [stem |-> im.name, suffix |-> "_detections_" \o mode \o ".json"],
     csv |-> [stem |-> im.name, suffix |-> "_counts_" \o mode \o ".csv"],
     counts |-> LabelCounts(kept)]

\* process_blueprint_image: Image.open, model.predict, keep SELECTED_LABELS_2D
process_blueprint_image(model, im, raises, out) ==
    IF ~im.decodable \/ model = None \/ raises
    THEN [raised |-> TRUE, pipeline |-> "blueprint"]
    ELSE [raised |-> FALSE, pipeline |-> "blueprint",
          res |-> LegacyResult(im, "blueprint",
                               SelectSeq(out, LAMBDA l : l \in SELECTED_LABELS_2D)),
          written |-> LegacyFiles(im, "blueprint")]

\* process_room_photo: model(str(image_path)), keep TARGET_CLASSES_ROOM
process_room_photo(model, im, raises, out) ==
    IF ~im.decodable \/ model = None \/ raises
    THEN [raised |-> TRUE, pipeline |-> "room"]
    ELSE [raised |-> FALSE, pipeline |-> "room",
          res |-> LegacyResult(im, "room",
                               SelectSeq(out, LAMBDA l : l \in TARGET_CLASSES_ROOM)),
          written |-> LegacyFiles(im, "room")]

\* the orders iterdir() can list the set S in
Orders(S) ==
    {s \in [1..Cardinality(S) -> S] : \A i, j \in 1..Cardinality(S) : s[i] = s[j] => i = j}

\* process_media's enumeration of in_path; no list: FileNotFoundError
LegacyImages(p) ==
    IF p.kind = "file" /\ ImageFiles(p) # {} THEN Orders(ImageFiles(p))
    ELSE IF p.kind = "dir" /\ ImageFiles(p) # {} THEN Orders(ImageFiles(p))
    ELSE {}

EnvsLegacy ==
    [dino : {"absent"}, sam : {"absent"}, yolo : {"absent"}, depth : {"loadfail"},
     blueprint : {"missing", "loadfail", "ok"},
     room : {"loadfail", "ok"}]

InitLegacy ==
    /\ args = NoArgs
    /\ input \in Inputs(MaxLegacyImages)
    /\ env \in EnvsLegacy
    /\ mode_override \in Overrides
    /\ pc = "start"
    /\ images = <<>>
    /\ idx = 0
    /\ img = NoImage
    /\ loc = [res |-> <<>>]
    /\ results = <<>>
    /\ exc = None
    /\ loads = [p \in Providers |-> 0]
    /\ reads = {}
    /\ runs = <<>>
    /\ failed = {}
    /\ files = {}
    /\ cache = NoCache
    /\ threads = NoThreads

\* process_media: the if / elif / else that builds images
Legacy_Enumerate ==
    /\ pc = "start"
    /\ IF LegacyImages(input) = {}
       THEN /\ exc' = "FileNotFoundError"
            /\ pc' = "raised"
            /\ UNCHANGED <<images, idx>>
       ELSE /\ \E order \in LegacyImages(input) : images' = order
            /\ idx' = 1
            /\ pc' = "loop"
            /\ exc' = exc
    /\ UNCHANGED <<args, input, env, mode_override, img, loc, results, loads, reads,
                   runs, failed, files, cache, threads>>

\* process_media: for img in images: mode_guess = ...; after the loop, return
Legacy_Loop ==
    /\ pc = "loop"
    /\ IF idx > Len(images)
       THEN /\ pc' = "done"
            /\ UNCHANGED <<img, loc, reads, runs>>
       ELSE \E d \in BOOLEAN, c \in CfValues, e \in EdValues :
              LET bgr == [decodable |-> d, cf |-> IF d THEN c ELSE 0,
                          ed |-> IF d THEN e ELSE 0]
                  im == [name |-> images[idx], decodable |-> d,
                         mode |-> ModeGuess(mode_override, bgr)]
              IN /\ img' = im
                 /\ loc' = [res |-> loc.res,
                            bgr |-> IF mode_override # None THEN <<>> ELSE <<bgr>>,
                            guessed |-> IF mode_override # None THEN None
                                        ELSE guess_mode_from_image(bgr),
                            mode_guess |-> ModeGuess(mode_override, bgr),
                            modes |-> ModesToTry(ModeGuess(mode_override, bgr)),
                            k |-> 1,
                            results_per_mode |-> <<>>]
                 /\ reads' = IF mode_override # None THEN reads
                             ELSE reads \cup {im.name}
                 /\ runs' = <<>>
                 /\ pc' = "inner"
    /\ UNCHANGED <<args, input, env, mode_override, images, idx, results, exc, loads,
                   failed, files, cache, threads>>

RunEntry(r) == [mode_guess |-> loc.mode_guess, pipeline |-> r.pipeline, ok |-> ~r.raised]

\* process_media: one pass of "for mode in [...]": the model is fetched outside
\* the try, the pipeline runs inside it
Legacy_Inner ==
    /\ pc = "inner"
    /\ LET mode == loc.modes[loc.k]
           en == IF mode = "room" THEN _ensure_room_model(cache, env)
                 ELSE _ensure_blueprint_model(cache, env)
       IN /\ loads' = BumpLoads(en.loaded)
          /\ cache' = en.cache
          /\ IF en.raised
             THEN /\ exc' = "Exception"
                  /\ pc' = "raised"
                  /\ UNCHANGED <<loc, runs, reads, files>>
             ELSE \E raises \in BOOLEAN, out \in LegacyDetLists :
                    LET r == IF mode = "room"
                             THEN process_room_photo(en.model, img, raises, out)
                             ELSE process_blueprint_image(en.model, img, raises, out)
                    IN /\ runs' = Append(runs, RunEntry(r))
                       /\ reads' = reads \cup {img.name}
                       /\ files' = IF r.raised THEN files ELSE files \cup r.written
                       /\ loc' = [loc EXCEPT
                                    !.bgr = <<>>,
                                    !.k = @ + 1,
                                    !.res = IF r.raised THEN @ ELSE <<r.res>>,
                                    !.results_per_mode =
                                        IF r.raised THEN @ ELSE Append(@, r.res)]
                       /\ pc' = IF loc.k = 2 THEN "after" ELSE "inner"
                       /\ exc' = exc
    /\ UNCHANGED <<args, input, env, mode_override, images, idx, img, results, failed,
                   threads>>

\* process_media after the inner loop, with mode the loop's last value: the mode
\* check, the blueprint branch with its room fallback, results.append(res).
\* res is the local variable res: <<>> while unbound, else <<its value>>
FinalBranch(mode, c, e, im, res, raises, out) ==
    IF mode \notin {"blueprint", "room"}
    THEN [exc |-> "ValueError", cache |-> c, loaded |-> {}, ran |-> <<>>]
    ELSE IF mode = "blueprint"
    THEN LET eb == _ensure_blueprint_model(c, e)
         IN IF eb.model = None
            THEN LET er == _ensure_room_model(eb.cache, e)
                     r == process_room_photo(er.model, im, raises, out)
                 IN IF er.raised
                    THEN [exc |-> "Exception", cache |-> er.cache,
                          loaded |-> eb.loaded \cup er.loaded, ran |-> <<>>]
                    ELSE IF r.raised
                    THEN [exc |-> "Exception", cache |-> er.cache,
                          loaded |-> eb.loaded \cup er.loaded, ran |-> <<r>>]
                    ELSE [exc |-> None, cache |-> er.cache,
                          loaded |-> eb.loaded \cup er.loaded, ran |-> <<r>>,
                          res |-> r.res]
            ELSE LET r == process_blueprint_image(eb.model, im, raises, out)
                 IN IF r.raised
                    THEN [exc |-> "Exception", cache |-> eb.cache,
                          loaded |-> eb.loaded, ran |-> <<r>>]
                    ELSE [exc |-> None, cache |-> eb.cache,
                          loaded |-> eb.loaded, ran |-> <<r>>, res |-> r.res]
    ELSE IF res = <<>>
    THEN [exc |-> "UnboundLocalError", cache |-> c, loaded |-> {}, ran |-> <<>>]
    ELSE [exc |-> None, cache |-> c, loaded |-> {}, ran |-> <<>>, res |-> res[1]]

Legacy_After ==
    /\ pc = "after"
    /\ \E raises \in BOOLEAN, out \in LegacyDetLists :
         LET f == FinalBranch(loc.modes[2], cache, env, img, loc.res, raises, out)
             extended == results \o loc.results_per_mode
         IN /\ cache' = f.cache
            /\ loads' = BumpLoads(f.loaded)
            /\ runs' = IF f.ran = <<>> THEN runs
                       ELSE Append(runs, RunEntry(f.ran[1]))
            /\ reads' = IF f.ran = <<>> THEN reads ELSE reads \cup {img.name}
            /\ IF f.exc # None
               THEN /\ exc' = f.exc
                    /\ pc' = "raised"
                    /\ results' = extended
                    /\ UNCHANGED <<idx, loc, files>>
               ELSE /\ results' = Append(extended, f.res)
                    /\ files' = IF f.ran = <<>> THEN files
                                ELSE files \cup f.ran[1].written
                    /\ loc' = [res |-> <<f.res>>]
                    /\ idx' = idx + 1
                    /\ pc' = "loop"
                    /\ exc' = exc
    /\ UNCHANGED <<args, input, env, mode_override, images, img, failed, threads>>

NextLegacy ==
    \/ Legacy_Enumerate
    \/ Legacy_Loop
    \/ Legacy_Inner
    \/ Legacy_After

SpecLegacy == InitLegacy /\ [][NextLegacy]_vars

\* --------------------- SpecThreads: process_media called from several threads
\* Each call of process_media has its own cells blueprint_model / room_model (the
\* nonlocal variables of its closures); no lock guards them. A thread handles one
\* image: for each mode of ModesToTry it tests the cell, loads, then uses the model.
ThreadModes == {"blueprint", "room"}

\* a cell holding None; a loaded model is <<provider, instance number>>
NoModel == <<>>

CellOf(mode) == IF mode = "room" THEN "room_model" ELSE "blueprint_model"
ProviderOf(mode) == IF mode = "room" THEN "room" ELSE "blueprint"

InitThreads ==
    /\ args = NoArgs
    /\ input = [kind |-> "missing", entries |-> [n \in {} |-> "image"]]
    /\ env \in EnvsLegacy
    /\ mode_override = None
    /\ pc = "threads"
    /\ images = <<>>
    /\ idx = 0
    /\ img = NoImage
    /\ loc = NoLocals
    /\ results = <<>>
    /\ exc = None
    /\ loads = [p \in Providers |-> 0]
    /\ reads = {}
    /\ runs = <<>>
    /\ failed = {}
    /\ files = {}
    /\ cache = NoCache
    /\ threads = [t \in 1..NThreads |->
                    [pc |-> "idle", todo |-> <<>>,
                     blueprint_model |-> NoModel, room_model |-> NoModel]]

UnchangedBatch ==
    UNCHANGED <<args, input, env, mode_override, pc, images, idx, img, loc, results, exc,
                reads, runs, failed, files, cache>>

\* a thread enters process_media and reaches the inner loop with its mode_guess
Thread_Call(t) ==
    /\ threads[t].pc = "idle"
    /\ \E g \in ThreadModes :
         threads' = [threads EXCEPT ![t].pc = "check", ![t].todo = ModesToTry(g)]
    /\ UNCHANGED loads
    /\ UnchangedBatch

\* _ensure_*_model: if <cell> is None
Thread_Check(t) ==
    /\ threads[t].pc = "check"
    /\ threads' = [threads EXCEPT ![t].pc =
                     IF threads[t][CellOf(Head(threads[t].todo))] = NoModel
                     THEN "load" ELSE "use"]
    /\ UNCHANGED loads
    /\ UnchangedBatch

\* _ensure_*_model: <cell> = the loader's result; a new instance per load
Thread_Load(t) ==
    /\ threads[t].pc = "load"
    /\ LET mode == Head(threads[t].todo)
           p == ProviderOf(mode)
           attempted == ~(mode # "room" /\ env.blueprint = "missing")
           n == loads[p] + 1
       IN /\ loads' = IF attempted THEN [loads EXCEPT ![p] = n] ELSE loads
          /\ IF env[p] = "ok"
             THEN threads' = [threads EXCEPT
                                ![t][CellOf(mode)] = <<p, n>>,
                                ![t].pc = "use"]
             ELSE IF mode = "room"
             THEN threads' = [threads EXCEPT ![t].pc = "raised"]
             ELSE threads' = [threads EXCEPT ![t].pc = "use"]
    /\ UnchangedBatch

\* the pipeline runs with the model; then the next mode, or the call returns
Thread_Use(t) ==
    /\ threads[t].pc = "use"
    /\ threads' = [threads EXCEPT
                     ![t].todo = Tail(@),
                     ![t].pc = IF Len(threads[t].todo) = 1 THEN "done" ELSE "check"]
    /\ UNCHANGED loads
    /\ UnchangedBatch

NextThreads ==
    \E t \in 1..NThreads :
        \/ Thread_Call(t)
        \/ Thread_Check(t)
        \/ Thread_Load(t)
        \/ Thread_Use(t)

SpecThreads == InitThreads /\ [][NextThreads]_vars

\* ------------------------------------- SpecArgs: main.py with its arguments
\* main() as in Spec, with every provider available, and the command line
\* giving --camera_height_m, --fov_deg and an --output directory that may be
\* the input directory.
ArgsOfMain ==
    [camera_height_m : {None, "pos"}, fov_deg : {None, "pos"}, output : {"in", "out"},
     prompt : {<<>>} \cup {<<p>> : p \in Prompts}]

EnvOk ==
    [dino |-> "ok", sam |-> "ok", yolo |-> "ok", depth |-> "ok",
     blueprint |-> "missing", room |-> "loadfail"]

InitArgs ==
    /\ args \in ArgsOfMain
    /\ input \in Inputs(MaxImages)
    /\ env = EnvOk
    /\ mode_override = None
    /\ pc = "start"
    /\ images = <<>>
    /\ idx = 0
    /\ img = NoImage
    /\ loc = NoLocals
    /\ results = <<>>
    /\ exc = None
    /\ loads = [p \in Providers |-> 0]
    /\ reads = {}
    /\ runs = <<>>
    /\ failed = {}
    /\ files = {}
    /\ cache = NoCache
    /\ threads = NoThreads

SpecArgs == InitArgs /\ [][Next]_vars

\* ------------------------------ SpecFunctions: the pure functions, called alone
\* One function is called MaxCalls times on the same arguments; loc holds the
\* arguments and the values returned so far.
MaxCalls == 2

MaskedDets ==
    SeqsUpTo({DetInstance(l, m) : l \in Labels, m \in {<<>>, <<"crop_mask">>}}, MaxDets)

\* detection lists long enough for a label to repeat
MaxCountDets == 3
CountedDets == SeqsUpTo({DetInstance(l, <<>>) : l \in Labels}, MaxCountDets)

\* how many boxes a detector reports in a call of detect_and_segment
MaxOut == 2

FunctionCalls ==
    {[fn |-> "estimate_dimensions", depth_norm |-> d, camera_height_m |-> c,
      fov_deg |-> f, rets |-> <<>>] :
        d \in DepthMaps, c \in CameraValues, f \in CameraValues}
    \cup {[fn |-> "estimate_orientation", bgr |-> b, rets |-> <<>>] :
             b \in {<<>>} \cup {<<px>> : px \in Pixels}}
    \cup {[fn |-> "crop_mask", shape |-> sh, box |-> b, kind |-> k, rets |-> <<>>] :
               sh \in Shapes, b \in UNION {BoxesOf(t) : t \in Shapes}, k \in Segmentations}
    \cup {[fn |-> "detect_and_segment", im |-> [name |-> 1, decodable |-> d, mode |-> None],
            e |-> e, dinoRaises |-> dr, yoloRaises |-> yr, dout |-> do, yout |-> yo,
            rets |-> <<>>] :
               d \in BOOLEAN, e \in {x \in EnvsMain : x.depth = "ok"},
               dr \in {"none", "predict", "segment"}, yr \in BOOLEAN,
               do \in SeqsUpTo({"door"}, MaxOut), yo \in SeqsUpTo({"cat"}, MaxOut)}
    \cup {[fn |-> "normalize_depth", depth |-> f, rets |-> <<>>] : f \in DepthFields}
    \cup {[fn |-> "counts", im |-> [name |-> 1, decodable |-> TRUE, mode |-> None],
            dets |-> ds, rets |-> <<>>] : ds \in CountedDets}
    \cup {[fn |-> "to_scene_json",
            im |-> [name |-> n, decodable |-> TRUE, mode |-> None],
            dets |-> ds,
            depth_stats |-> [vis_path |-> DepthVisPath("out", [name |-> n])],
            geom_stats |-> "geom_stats",
            dim_stats |-> estimate_dimensions(DepthOf(BatchPixels), c, c),
            orient_stats |-> estimate_orientation(<<BatchPixels>>),
            rets |-> <<>>] :
             n \in {m \in Names : KindOf(m) = "image"}, ds \in MaskedDets,
             c \in {None, "pos"}}

InitFunctions ==
    /\ args = NoArgs
    /\ input = [kind |-> "missing", entries |-> [n \in {} |-> "image"]]
    /\ env = EnvOk
    /\ mode_override = None
    /\ pc = "call"
    /\ images = <<>>
    /\ idx = 0
    /\ img = NoImage
    /\ loc \in FunctionCalls
    /\ results = <<>>
    /\ exc = None
    /\ loads = [p \in Providers |-> 0]
    /\ reads = {}
    /\ runs = <<>>
    /\ failed = {}
    /\ files = {}
    /\ cache = NoCache
    /\ threads = NoThreads

UnchangedByCall ==
    UNCHANGED <<args, input, env, mode_override, pc, images, idx, img, results, exc,
                loads, reads, runs, failed, files, cache, threads>>

Call_detect_and_segment ==
    /\ pc = "call"
    /\ loc.fn = "detect_and_segment"
    /\ Len(loc.rets) < MaxCalls
    /\ loc' = [loc EXCEPT !.rets = Append(@,
                  detect_and_segment(loc.im, <<"">>, loc.e, loc.dinoRaises,
                                     loc.yoloRaises, loc.dout, loc.yout, TRUE))]
    /\ UnchangedByCall

Call_estimate_dimensions ==
    /\ pc = "call"
    /\ loc.fn = "estimate_dimensions"
    /\ Len(loc.rets) < MaxCalls
    /\ loc' = [loc EXCEPT !.rets = Append(@,
                  estimate_dimensions(loc.depth_norm, loc.camera_height_m, loc.fov_deg))]
    /\ UnchangedByCall

Call_estimate_orientation ==
    /\ pc = "call"
    /\ loc.fn = "estimate_orientation"
    /\ Len(loc.rets) < MaxCalls
    /\ loc' = [loc EXCEPT !.rets = Append(@, estimate_orientation(loc.bgr))]
    /\ UnchangedByCall

Call_crop_mask ==
    /\ pc = "call"
    /\ loc.fn = "crop_mask"
    /\ Len(loc.rets) < MaxCalls
    /\ loc' = [loc EXCEPT !.rets = Append(@, crop_mask(loc.shape, loc.box, loc.kind))]
    /\ UnchangedByCall

Call_normalize_depth ==
    /\ pc = "call"
    /\ loc.fn = "normalize_depth"
    /\ Len(loc.rets) < MaxCalls
    /\ loc' = [loc EXCEPT !.rets = Append(@, normalize_depth(loc.depth))]
    /\ UnchangedByCall

\* run_one from to_scene_json on: the scene, its annotated_image and counts
Call_counts ==
    /\ pc = "call"
    /\ loc.fn = "counts"
    /\ Len(loc.rets) < MaxCalls
    /\ loc' = [loc EXCEPT !.rets = Append(@,
                  FinishScene(to_scene_json(loc.im, loc.dets,
                                  [vis_path |-> DepthVisPath("out", loc.im)],
                                  "geom_stats",
                                  estimate_dimensions(DepthOf(BatchPixels), None, None),
                                  estimate_orientation(<<BatchPixels>>)),
                              OverlayPath("out", loc.im), loc.dets))]
    /\ UnchangedByCall

Call_to_scene_json ==
    /\ pc = "call"
    /\ loc.fn = "to_scene_json"
    /\ Len(loc.rets) < MaxCalls
    /\ loc' = [loc EXCEPT !.rets = Append(@,
                  to_scene_json(loc.im, loc.dets, loc.depth_stats, loc.geom_stats,
                                loc.dim_stats, loc.orient_stats))]
    /\ UnchangedByCall

NextFunctions ==
    \/ Call_counts
    \/ Call_crop_mask
    \/ Call_detect_and_segment
    \/ Call_normalize_depth
    \/ Call_estimate_dimensions
    \/ Call_estimate_orientation
    \/ Call_to_scene_json

SpecFunctions == InitFunctions /\ [][NextFunctions]_vars

\* ===================================================================== claims
\* the latest image's processing is over: the loop moved on, or the call raised
ImageOver == (pc \in {"loop", "done"} /\ idx > 1) \/ (pc = "raised" /\ idx >= 1)

\* some detection pipeline run on the latest image raised, or its run_one did
LatestRaised ==
    \/ (idx - 1) \in failed
    \/ \E i \in 1..Len(runs) : ~runs[i].ok

\* the image a result entry is about
EntryImage(r) ==
    IF IsError(r) THEN r.image
    ELSE IF "source_image" \in DOMAIN r THEN r.source_image
    ELSE r.annotated_image.stem

C5_NoGeneralDetectorIsError ==
    (/\ pc \in {"loop", "done"}
     /\ idx > 1
     /\ env.yolo # "ok"
     /\ runs # <<>>
     /\ runs[1].pipeline = "none") =>
        IsError(results[idx - 1])

\* C6: within one batch run every provider's loader runs at most once.
C6_LoadedAtMostOnce == \A p \in Providers : loads[p] <= 1

\* C7: whatever the interleaving of the threads, every provider is acquired at
\* most once and all threads that hold it hold the same instance.
C7_AcquiredOnceForAll ==
    /\ \A p \in {"blueprint", "room"} : loads[p] <= 1
    /\ \A t1, t2 \in 1..NThreads : \A m \in ThreadModes :
          (threads[t1][CellOf(m)] # NoModel /\ threads[t2][CellOf(m)] # NoModel) =>
              threads[t1][CellOf(m)] = threads[t2][CellOf(m)]

C11_ScaleTag ==
    (pc = "call" /\ loc.fn = "estimate_dimensions") =>
        \A i \in 1..Len(loc.rets) :
            /\ loc.rets[i].scale \in {"approx_meters", "relative"}
            /\ loc.rets[i].scale = "approx_meters" <=>
                  (loc.camera_height_m = "pos" /\ loc.fov_deg = "pos")

\* C12: a call of main that gives only one of --camera_height_m and --fov_deg
\* fails as a whole: it reads no image, produces no entry and does not end
\* normally.
C12_PartialCameraIsFatal ==
    ((args.camera_height_m = None) # (args.fov_deg = None)) =>
        /\ reads = {}
        /\ results = <<>>
        /\ pc \in {"start", "raised"}

\* the input path is one image file, or a directory with at least one image file
ValidInput ==
    /\ input.kind \in {"file", "dir"}
    /\ ImageFiles(input) # {}

\* C13: with an input path that is neither an image file nor a directory holding
\* an image file, the call ends in a not-found error before any image is
\* processed and before any entry is produced.
C13_NoImagesIsNotFound ==
    (~ValidInput /\ pc # "start") =>
        /\ pc = "raised"
        /\ exc = "FileNotFoundError"
        /\ results = <<>>
        /\ reads = {}

\* the labels a result entry shows, and the allow-list of its mode
LabelsOf(r) ==
    DOMAIN r.counts \cup
    (IF "objects" \in DOMAIN r
     THEN {r.objects[i].label : i \in 1..Len(r.objects)} ELSE {})

AllowList(r) ==
    IF "mode" \in DOMAIN r
    THEN IF r.mode = "blueprint" THEN SELECTED_LABELS_2D ELSE TARGET_CLASSES_ROOM
    ELSE DEFAULT_PROMPT \cup TARGET_CLASSES_ROOM

\* C14: every label shown by an emitted result (objects, counts) is in the
\* allow-list of the image's mode.
C14_LabelFiltering ==
    \A k \in 1..Len(results) :
        ~IsError(results[k]) => LabelsOf(results[k]) \subseteq AllowList(results[k])

\* C15: every entry of the batch result is either an error record {image, error}
\* or a record with the eight SceneRecord fields and no error field.
C15_EntryShapes ==
    \A k \in 1..Len(results) :
        \/ DOMAIN results[k] = {"image", "error"}
        \/ DOMAIN results[k] =
              {"source_image", "objects", "depth", "geometry", "dimensions",
               "orientation", "annotated_image", "counts"}

C15_Witness ==
    /\ pc = "done"
    /\ \E k \in 1..Len(results) : DOMAIN results[k] = {"image", "error"}
    /\ \E k \in 1..Len(results) :
          /\ "error" \notin DOMAIN results[k]
          /\ "counts" \in DOMAIN results[k]
          /\ Len(results[k].objects) > 0

\* C16: every successfully processed image has its overlay written at the path
\* its record returns, and two distinct source images of a batch never share an
\* overlay path or a depth-visualization path.
C16_OutputsPerImage ==
    \A j, k \in 1..Len(results) :
        (~IsError(results[j]) /\ ~IsError(results[k])) =>
            /\ results[k].annotated_image \in files
            /\ j # k =>
                  /\ results[j].annotated_image # results[k].annotated_image
                  /\ results[j].depth.vis_path # results[k].depth.vis_path

\* C17: no file written by the per-image pipeline is one of the images
\* enumerated as input of the batch.
C17_SourcesNotWritten ==
    \A f \in files : \A i \in 1..Len(images) : f # SourcePath(images[i])

C19_SceneRecordImmutable ==
    [][(pc = "overlay" /\ Len(results') = Len(results) + 1 /\ pc' = "loop"
        /\ failed' = failed) =>
           results'[Len(results')] = loc.scene]_vars

\* C20: estimate_orientation on a uniformly gray, non-black image returns the
\* label unknown.
C20_FlatImageIsUnknown ==
    (/\ pc = "call"
     /\ loc.fn = "estimate_orientation"
     /\ loc.bgr # <<>>
     /\ loc.bgr[1].left = loc.bgr[1].right
     /\ loc.bgr[1].left # 0) =>
        \A i \in 1..Len(loc.rets) : loc.rets[i].orientation = "unknown"

\* C21: for a decodable image whose clipped luminance has a non-zero zeroth
\* moment, estimate_orientation returns East-ish iff the centroid m10 / m00 is
\* above 0.55 * w, West-ish iff it is below 0.45 * w, the ambiguous label
\* otherwise, and the record carries that centroid; the label is always one of
\* the four labels.
C21_CentroidThresholds ==
    (pc = "call" /\ loc.fn = "estimate_orientation") =>
        \A i \in 1..Len(loc.rets) :
            /\ loc.rets[i].orientation \in
                  {"East-ish", "West-ish", "South/North ambiguous", "unknown"}
            /\ (loc.bgr # <<>> /\ Moments(loc.bgr[1]).m00 > 0) =>
                  LET m == Moments(loc.bgr[1])
                      w == loc.bgr[1].w
                      r == loc.rets[i]
                  IN /\ r.orientation = "East-ish" <=> 20 * m.m10 > 11 * w * m.m00
                     /\ r.orientation = "West-ish" <=> 20 * m.m10 < 9 * w * m.m00
                     /\ r.orientation \in
                           {"East-ish", "West-ish", "South/North ambiguous"}
                     /\ r.brightness_cx_px = [num |-> m.m10, den |-> m.m00]

C21_Witness ==
    /\ pc = "call"
    /\ loc.fn = "estimate_orientation"
    /\ loc.bgr # <<>>
    /\ loc.bgr[1].left = 0
    /\ loc.bgr[1].right = 255
    /\ Len(loc.rets) > 0
    /\ loc.rets[1].orientation = "East-ish"

\* C22: for an image that cannot be decoded, or whose luminance zeroth moment
\* is zero (an all-black image), estimate_orientation returns the record
\* {orientation: unknown}.
C22_DegenerateIsUnknown ==
    (/\ pc = "call"
     /\ loc.fn = "estimate_orientation"
     /\ \/ loc.bgr = <<>>
        \/ loc.bgr[1].left = 0 /\ loc.bgr[1].right = 0) =>
        \A i \in 1..Len(loc.rets) : loc.rets[i] = [orientation |-> "unknown"]

C22_Witness ==
    /\ pc = "call"
    /\ loc.fn = "estimate_orientation"
    /\ loc.bgr # <<>>
    /\ loc.bgr[1].left = 0
    /\ loc.bgr[1].right = 0
    /\ Len(loc.rets) > 0
    /\ loc.rets[1].orientation = "unknown"

\* C23: every estimate of estimate_dimensions carries image_width_px and
\* image_height_px; the relative one carries ceiling_height_px_guess and none of
\* the metre fields, the approx_meters one carries px_to_m, focal_px and
\* ceiling_height_m_guess and no ceiling_height_px_guess.
C23_DimensionFields ==
    (pc = "call" /\ loc.fn = "estimate_dimensions") =>
        \A i \in 1..Len(loc.rets) :
            /\ loc.rets[i].scale = "relative" =>
                  DOMAIN loc.rets[i] =
                      {"image_width_px", "image_height_px", "scale",
                       "ceiling_height_px_guess"}
            /\ loc.rets[i].scale = "approx_meters" =>
                  DOMAIN loc.rets[i] =
                      {"image_width_px", "image_height_px", "scale", "px_to_m",
                       "focal_px", "ceiling_height_m_guess"}
            /\ loc.rets[i].scale \in {"relative", "approx_meters"}

C23_Witness ==
    /\ pc = "call"
    /\ loc.fn = "estimate_dimensions"
    /\ Len(loc.rets) > 0
    /\ loc.rets[1].scale = "approx_meters"
    /\ loc.camera_height_m = "pos"

\* the field is the output of a normalization: its minimum is 0, its maximum at
\* most 1
IsNormalized(f) == MinOf(f.num) = 0 /\ MaxOf(f.num) <= f.den

IsConstant(f) == MinOf(f.num) = MaxOf(f.num)

\* C24 as stated: normalizing an already-normalized field gives minimum 0 and
\* maximum 1, and leaves a constant field unchanged.
C24_RenormalizedIsUnit ==
    (pc = "call" /\ loc.fn = "normalize_depth" /\ IsNormalized(loc.depth)) =>
        \A i \in 1..Len(loc.rets) :
            IF IsConstant(loc.depth)
            THEN loc.rets[i] = loc.depth
            ELSE /\ MinOf(loc.rets[i].num) = 0
                 /\ MaxOf(loc.rets[i].num) = loc.rets[i].den

\* C24 amended: normalizing an already-normalized field of maximum M gives
\* minimum 0 and a maximum strictly below 1, short of 1 by at most 1e-6 / M, and
\* leaves a constant field unchanged.
C24_RenormalizedUpToEps ==
    (pc = "call" /\ loc.fn = "normalize_depth" /\ IsNormalized(loc.depth)) =>
        \A i \in 1..Len(loc.rets) :
            IF IsConstant(loc.depth)
            THEN loc.rets[i] = loc.depth
            ELSE LET r == loc.rets[i]
                 IN /\ MinOf(r.num) = 0
                    /\ MaxOf(r.num) < r.den
                    /\ (r.den - MaxOf(r.num)) * MaxOf(loc.depth.num) * EPS_INV
                          <= r.den * loc.depth.den

C24_Witness ==
    /\ pc = "call"
    /\ loc.fn = "normalize_depth"
    /\ IsNormalized(loc.depth)
    /\ ~IsConstant(loc.depth)
    /\ MaxOf(loc.depth.num) = loc.depth.den
    /\ Len(loc.rets) > 0
    /\ loc.rets[1].den = EPS_INV + 1

\* the pixels of the image the box covers: the region that was segmented
RegionOf(shape, box) ==
    {c \in (0..(shape.w - 1)) \X (0..(shape.h - 1)) :
        /\ TruncHalf(box.x1) <= c[1] /\ c[1] < TruncHalf(box.x2)
        /\ TruncHalf(box.y1) <= c[2] /\ c[2] < TruncHalf(box.y2)}

\* C25: a mask attached to a detection has the image's height and width, holds
\* the segmenter's crop at the corner of the segmented region and is false at
\* every other pixel, for boxes starting at negative coordinates or reaching
\* past the border as well.
C25_MaskPlacedAtOffset ==
    (pc = "call" /\ loc.fn = "crop_mask") =>
        \A i \in 1..Len(loc.rets) :
            loc.rets[i].mask # <<>> =>
                LET m == loc.rets[i].mask[1]
                    region == RegionOf(loc.shape, loc.box)
                    corner == CHOOSE c \in region :
                                  \A d \in region : c[1] <= d[1] /\ c[2] <= d[2]
                IN /\ region # {}
                   /\ m.h = loc.shape.h /\ m.w = loc.shape.w
                   /\ m.on \subseteq region
                   /\ m.on = {<<corner[1] + c[1], corner[2] + c[2]>> :
                                  c \in loc.rets[i].crop}

C25_Witness ==
    /\ pc = "call"
    /\ loc.fn = "crop_mask"
    /\ loc.box.x1 < 0
    /\ loc.box.y1 > 0
    /\ TruncHalf(loc.box.x2) > loc.shape.w
    /\ loc.kind = "last"
    /\ Len(loc.rets) > 0
    /\ loc.rets[1].mask # <<>>
    /\ loc.rets[1].mask[1].on = {<<loc.shape.w - 1, loc.shape.h - 1>>}

RECURSIVE SumOver(_, _)
SumOver(f, keys) ==
    IF keys = {} THEN 0
    ELSE LET k == CHOOSE x \in keys : TRUE IN f[k] + SumOver(f, keys \ {k})

\* C26: in a scene record, counts maps each label of objects to the number of
\* objects carrying it: the keys are the labels of objects, every count is at
\* least 1, and the counts add up to the number of objects.
C26_CountsByLabel ==
    (pc = "call" /\ loc.fn = "counts") =>
        \A i \in 1..Len(loc.rets) :
            LET objects == loc.rets[i].objects
                counts == loc.rets[i].counts
            IN /\ DOMAIN counts = {objects[j].label : j \in 1..Len(objects)}
               /\ \A l \in DOMAIN counts :
                     /\ counts[l] >= 1
                     /\ counts[l] =
                            Cardinality({j \in 1..Len(objects) : objects[j].label = l})
               /\ SumOver(counts, DOMAIN counts) = Len(objects)

C26_Witness ==
    /\ pc = "call"
    /\ loc.fn = "counts"
    /\ Len(loc.rets) > 0
    /\ Len(loc.rets[1].objects) = 3
    /\ DOMAIN loc.rets[1].counts = {"door", "cat"}
    /\ loc.rets[1].counts["door"] = 2

\* the render_overlay call of the latest image, if it returned
OverlayRendered(i) == runs[i].pipeline = "overlay" /\ runs[i].ok

\* C27: render_overlay composites the depth inset exactly when a readable depth
\* visualization is at the referenced path, and run_one writes the depth
\* visualization before it calls render_overlay, so every overlay rendered by
\* the batch pipeline contains the inset of its image's depth map.
C27_OverlayHasOwnInset ==
    \A i \in 1..Len(runs) :
        OverlayRendered(i) =>
            /\ DepthVisPath(args.output, img) \in files
            /\ runs[i].inset

\* C28: a batch run without a prompt asks the open-vocabulary detector for the
\* default vocabulary (DEFAULT_PROMPT), not for an empty class list.
C28_DefaultVocabulary ==
    \A i \in 1..Len(runs) :
        (/\ args.prompt = <<>>
         /\ "queried" \in DOMAIN runs[i]
         /\ runs[i].queried # <<>>) =>
            LET classes == runs[i].queried[1]
            IN /\ classes # <<>>
               /\ {classes[j] : j \in 1..Len(classes)} = DEFAULT_PROMPT

\* C29: detect_and_segment raises exactly when the image cannot be decoded; for
\* a decodable image, whatever is missing or raising among the open-vocabulary
\* detector, the segmenter and the general detector, it returns a list: the
\* open-vocabulary detections, else those of the general detector (without
\* masks), else the empty list, and never detections of both.
C29_FallsThrough ==
    (pc = "call" /\ loc.fn = "detect_and_segment") =>
        \A i \in 1..Len(loc.rets) :
            LET r == loc.rets[i]
                labels == [j \in 1..Len(r.dets) |-> r.dets[j].label]
                noDino == loc.e.dino # "ok" \/ loc.dinoRaises = "predict"
                noYolo == loc.e.yolo # "ok" \/ loc.yoloRaises
            IN /\ r.raised <=> ~loc.im.decodable
               /\ ~r.raised =>
                     /\ labels \in {loc.dout, loc.yout, <<>>}
                     /\ (loc.e.dino = "ok" /\ loc.dinoRaises = "none") => labels = loc.dout
                     /\ (noDino /\ ~noYolo) =>
                           /\ labels = loc.yout
                           /\ \A j \in 1..Len(r.dets) : r.dets[j].mask = <<>>
                     /\ (noDino /\ noYolo) => r.dets = <<>>
                     /\ (\E j \in 1..Len(r.dets) : r.dets[j].mask # <<>>) =>
                           labels = loc.dout

C29_Witness ==
    /\ pc = "call"
    /\ loc.fn = "detect_and_segment"
    /\ loc.im.decodable
    /\ loc.e.dino = "ok" /\ loc.e.sam = "ok" /\ loc.e.yolo = "ok"
    /\ loc.dinoRaises = "segment"
    /\ Len(loc.dout) = 2
    /\ Len(loc.rets) > 0
    /\ ~loc.rets[1].raised
    /\ Len(loc.rets[1].dets) = 1
    /\ loc.rets[1].dets[1].label = "cat"

\* C30: an image whose entry is an error entry has no output file written by
\* the run, neither its depth visualization nor its overlay, whichever step
\* failed (images sharing their stem with another image of the batch aside).
C30_ErrorEntryWroteNothing ==
    \A k \in 1..Len(results) :
        (/\ IsError(results[k])
         /\ \A j \in 1..Len(images) :
               j # k => Stem(images[j]) # Stem(images[k])) =>
            /\ DepthVisPath(args.output, [name |-> images[k]]) \notin files
            /\ OverlayPath(args.output, [name |-> images[k]]) \notin files

====
